---- MODULE Spec2Model ----
(***************************************************************************)
(* A model of ledgeracio's software keystore (src/softstore.rs) and of the *)
(* ledgeracio-allowlist command line (src/bin/ledgeracio-allowlist/        *)
(* main.rs).                                                               *)
(*                                                                         *)
(* A u32 is written as the pair <<hi, lo>> of its two 16-bit halves (its   *)
(* value is hi * 65536 + lo): TLC's integers are 32-bit signed, so 2^31    *)
(* itself is not a number it can hold.  Bit 31 of the u32 is bit 15 of hi. *)
(*                                                                         *)
(* The cryptographic primitives are modelled symbolically: a derived key   *)
(* is the pair of the seed and the path of indices that led to it, a       *)
(* public key is a term over the private key, a signature is a term over   *)
(* the key and the message.  Distinct terms stand for distinct values.     *)
(***************************************************************************)
EXTENDS Integers, Sequences, FiniteSets, TLC

\* ------------------------------------------------------------------ bounds
MaxSeed == 2
MaxAccountType == 1
MaxIndex == 1
MaxCall == 2
MaxKey == 2
MaxNonce == 5
MaxLines == 2

\* ------------------------------------------------------------- u32 words
U32(hi, lo) == <<hi, lo>>

U32Geq(a, b) == a[1] > b[1] \/ (a[1] = b[1] /\ a[2] >= b[2])

U32Gt(a, b) == a[1] > b[1] \/ (a[1] = b[1] /\ a[2] > b[2])

\* a | b for the one right operand the code uses, 1u32 << 31
OrBit31(a) == IF a[1] >= 32768 THEN a ELSE <<a[1] + 32768, a[2]>>

\* const HARDENED: u32 = 1u32 << 31
HARDENED == U32(32768, 0)

\* -------------------------------------------------------------- the inputs
Networks == {"Polkadot", "Kusama"}

Seeds == 1..MaxSeed

\* `account_type as u32`
AccountTypes == {U32(0, t) : t \in 0..MaxAccountType}

\* the indices a caller may pass: both sides of the boundary and the ends
Indices ==
    {U32(0, 0), U32(0, MaxIndex), U32(32767, 65535),
     U32(32768, 0), U32(32768, MaxIndex), U32(65535, 65535)}

Calls == 1..MaxCall

\* ---------------------------------------------------- the software keystore
None == [none |-> TRUE]

\* XPrv::from_nonextended_force(HMAC-SHA512("Bitcoin seed", seed))
MasterKey(seed) == [seed |-> seed, path |-> <<>>]

\* XPrv::derive(V2, index)
Derive(prv, index) == [prv EXCEPT !.path = Append(@, index)]

\* prv.public().public_key().into()
PublicOf(prv) == <<"public", prv.seed, prv.path>>

\* the path SoftKeyStore::new derives from the master key
NewPath(account_type) ==
    <<U32(32768, 44), U32(32768, 354), OrBit31(account_type), U32(0, 0)>>

RECURSIVE DeriveAll(_, _)
DeriveAll(prv, path) ==
    IF path = <<>> THEN prv
    ELSE DeriveAll(Derive(prv, Head(path)), Tail(path))

\* SoftKeyStore::new
SoftKeyStoreNew(seed, account_type) ==
    LET private == DeriveAll(MasterKey(seed), NewPath(account_type))
    IN  [prv |-> private, pub |-> PublicOf(private)]

\* the guard of SoftKeyStore::signer, with an off-by-one boundary
SignerIndexInvalidOffByOne(index) == U32Gt(index, HARDENED)

\* the guard of SoftKeyStore::signer
SignerIndexInvalid(index) == U32Geq(index, HARDENED)

\* the handle of SoftKeyStore::signer, keeping the parent's account id
SignerHandleParentPub(self, index) ==
    LET prv == Derive(self.prv, OrBit31(index))
    IN  [prv |-> prv, pub |-> self.pub]

\* the handle SoftKeyStore::signer builds when the index is accepted
SignerHandle(self, index) ==
    LET prv == Derive(self.prv, OrBit31(index))
    IN  [prv |-> prv, pub |-> PublicOf(prv)]

\* SoftKeyStore::signer
SignerResult(self, index) ==
    IF SignerIndexInvalid(index)
    THEN [kind |-> "InvalidIndex", index |-> index]
    ELSE [kind |-> "ok", index |-> index, handle |-> SignerHandle(self, index)]

\* Signer::account_id
AccountIdOf(self) == self.pub

\* Signer::sign
SignExtrinsic(self, call) ==
    [call      |-> call,
     address   |-> AccountIdOf(self),
     signature |-> [key |-> self.prv, msg |-> call]]

\* ------------------------------------------------- the allowlist command line
Keys == 1..MaxKey

\* the nonces an operator may pass: the least, and another
Nonces == {0, MaxNonce}

RECURSIVE Concat(_)
Concat(slices) ==
    IF slices = <<>> THEN <<>> ELSE Head(slices) \o Concat(Tail(slices))

\* pub const KEY_VERSION: u8 = 1
KEY_VERSION == 1

\* pub const KEY_MAGIC: &[u8] = &*b"Ledgeracio Secret Key"
KEY_MAGIC ==
    <<76, 101, 100, 103, 101, 114, 97, 99, 105, 111, 32,
      83, 101, 99, 114, 101, 116, 32, 75, 101, 121>>

\* u16::to_le_bytes
U16LE(v) == <<v % 256, (v \div 256) % 256>>

\* u32::to_le_bytes, of a nonce
U32LE(v) == <<v % 256, (v \div 256) % 256, (v \div 65536) % 256, (v \div 16777216) % 256>>

\* u8::from(Ss58AddressFormat): PolkadotAccount is 0 and KusamaAccount is 2
NetworkByte(network) == IF network = "Polkadot" THEN 0 ELSE 2

\* the 32 secret bytes Keypair::generate draws; k stands for the draw
SecretBytes(k) == [i \in 1..32 |-> k]

\* the 32 public bytes of a secret key (ed25519, as an injective map)
PublicBytes(secret) == [i \in 1..32 |-> 255 - secret[i]]

\* base64::encode, as a term over the bytes
Base64(bytes) == [base64 |-> bytes]

\* a file: whether it exists, and its content
Absent == [exists |-> FALSE, data |-> <<>>]

File(data) == [exists |-> TRUE, data |-> data]

\* the text GenKey formats for the .pub file
PublicFileText(network, publickey) ==
    <<"Ledgeracio version 1 public key for network ", network, "\n",
      Base64(publickey), "\n">>

\* the slices GenKey hands to write() for the .sec file, public key first
SecretFileSlicesPublicFirst(network, secretkey, publickey) ==
    <<KEY_MAGIC, U16LE(KEY_VERSION), <<NetworkByte(network)>>, publickey, secretkey>>

\* the slices GenKey hands to write() for the .sec file
SecretFileSlices(network, secretkey, publickey) ==
    <<KEY_MAGIC, U16LE(KEY_VERSION), <<NetworkByte(network)>>, secretkey, publickey>>

\* write(buf, path): fail = -1 writes everything, fail = 0 is a failed open
\* (the file is left as it was), fail = k is a failed write_all of the k-th
\* slice, after the open has created and truncated the file
FsWrite(buf, old, fail) ==
    IF fail = -1 THEN [ok |-> TRUE, file |-> File(Concat(buf))]
    ELSE IF fail = 0 THEN [ok |-> FALSE, file |-> old]
    ELSE [ok |-> FALSE, file |-> File(Concat(SubSeq(buf, 1, fail - 1)))]

\* keyparse::parse_public: the banner's network and the 32-byte key
ParsePublic(data) ==
    IF /\ Len(data) = 5
       /\ data[1] = "Ledgeracio version 1 public key for network "
       /\ data[2] \in Networks
       /\ Len(data[4].base64) = 32
    THEN [ok |-> TRUE, key |-> data[4].base64, network |-> data[2]]
    ELSE [ok |-> FALSE, err |-> "MalformedKeyFile"]

\* keyparse::parse_secret: magic, version, network tag, then the two keys
ParseSecret(data, network) ==
    LET m == Len(KEY_MAGIC)
    IN  IF Len(data) # m + 2 + 1 + 64
        THEN [ok |-> FALSE, err |-> "MalformedKeyFile"]
        ELSE IF \/ SubSeq(data, 1, m) # KEY_MAGIC
                \/ SubSeq(data, m + 1, m + 2) # U16LE(KEY_VERSION)
        THEN [ok |-> FALSE, err |-> "UnsupportedKeyFormat"]
        ELSE IF data[m + 3] # NetworkByte(network)
        THEN [ok |-> FALSE, err |-> "NetworkMismatch"]
        ELSE [ok |-> TRUE,
              secret |-> SubSeq(data, m + 4, m + 35),
              public |-> SubSeq(data, m + 36, m + 67)]

\* the lines of a textual allowlist: a comment or blank line, an address of
\* a network, or text that is no address
CommentLine == [kind |-> "comment", network |-> "none", id |-> 0]

JunkLine == [kind |-> "junk", network |-> "none", id |-> 0]

AddressLine(n) == [kind |-> "address", network |-> n, id |-> 1]

\* the texts an operator may pass: a comment and then MaxLines addresses
\* of one network
Texts ==
    {<<CommentLine>> \o [i \in 1..MaxLines |-> AddressLine(n)] : n \in Networks}

\* the signature of `body` under `secret`
Signature(secret, body) == <<secret, body>>

\* parser::parse: compile the text into the signed binary allowlist
ParseAllowlist(text, network, public, secret, nonce) ==
    LET entries == SelectSeq(text, LAMBDA l : l.kind # "comment")
        ids     == [i \in 1..Len(entries) |-> entries[i].id]
        body    == <<NetworkByte(network), U32LE(nonce), ids>>
    IN  IF \E i \in 1..Len(entries) : entries[i].kind = "junk"
        THEN [ok |-> FALSE, err |-> "InvalidAddress"]
        ELSE IF \E i \in 1..Len(entries) : entries[i].network # network
        THEN [ok |-> FALSE, err |-> "NetworkMismatch"]
        ELSE IF public # PublicBytes(secret)
        THEN [ok |-> FALSE, err |-> "KeyMismatch"]
        ELSE [ok |-> TRUE, signed |-> body \o <<Signature(secret, body)>>]

\* the signature check of parser::inspect
Verifies(pk, body, sig) == sig[2] = body /\ PublicBytes(sig[1]) = pk

\* the identifiers of a binary allowlist, rendered as addresses of `network`
Render(network, ids) == [i \in 1..Len(ids) |-> <<network, ids[i]>>]

\* parser::inspect: decode, verify, and only then hand out the addresses
ParserInspect(data, network, pk) ==
    IF Len(data) # 4
    THEN [ok |-> FALSE, err |-> "TruncatedAllowlist"]
    ELSE IF data[1] # NetworkByte(network)
    THEN [ok |-> FALSE, err |-> "NetworkMismatch"]
    ELSE IF ~Verifies(pk, SubSeq(data, 1, 3), data[4])
    THEN [ok |-> FALSE, err |-> "SignatureInvalid"]
    ELSE [ok |-> TRUE, addresses |-> Render(network, data[3])]

\* what a command reports when it starts: no error, no device touched,
\* nothing written.  The last four fields record what the run was given:
\* the network its key file was made for, whether its inputs were all sound,
\* the nonce passed, and whether the output file already carried that nonce
\* under the same key
Started(cmd, network) ==
    [cmd |-> cmd, network |-> network, err |-> "none",
     hw |-> FALSE, device |-> "none", verified |-> FALSE, lines |-> 0,
     keyNetwork |-> "none", valid |-> FALSE, nonce |-> -1, reuse |-> FALSE]

Failed(r, err) == [r EXCEPT !.err = err]

Devices == {"ok", "absent", "failing"}

\* hardware()?.call(..).await?: the closure builds the HardStore, which
\* fails when no device answers; then the call itself may fail
Hardware(r, dev, call) ==
    IF dev = "absent" THEN [r EXCEPT !.hw = TRUE, !.err = "DeviceError"]
    ELSE IF dev = "failing"
    THEN [r EXCEPT !.hw = TRUE, !.device = call, !.err = "DeviceError"]
    ELSE [r EXCEPT !.hw = TRUE, !.device = call]

\* AllowlistCommand::GetKey
GetKeyRun(network, dev) == Hardware(Started("GetKey", network), dev, "get_pubkey")

\* AllowlistCommand::SetKey, without the comparison of the two networks
SetKeyRunUnchecked(network, key, dev) ==
    LET r == Started("SetKey", network)
    IN  IF ~key.exists THEN Failed(r, "IoError")
        ELSE LET p == ParsePublic(key.data)
             IN  IF ~p.ok THEN Failed(r, p.err)
                 ELSE Hardware(r, dev, "set_pubkey")

\* AllowlistCommand::SetKey
SetKeyRun(network, key, dev) ==
    LET r == Started("SetKey", network)
    IN  IF ~key.exists THEN Failed(r, "IoError")
        ELSE LET p == ParsePublic(key.data)
             IN  IF ~p.ok THEN Failed(r, p.err)
                 ELSE IF p.network # network THEN Failed(r, "NetworkMismatch")
                 ELSE Hardware(r, dev, "set_pubkey")

\* AllowlistCommand::Upload
UploadRun(network, path, dev) ==
    LET r == Started("Upload", network)
    IN  IF ~path.exists THEN Failed(r, "IoError")
        ELSE Hardware(r, dev, "allowlist_upload")

\* AllowlistCommand::GenKey: the run and the files it leaves
GenKeyRun(network, extension, k, failPub, failSec, files) ==
    LET r         == Started("GenKey", network)
        secretkey == SecretBytes(k)
        publickey == PublicBytes(secretkey)
        pub       == FsWrite(<<PublicFileText(network, publickey)>>, files.pub, failPub)
        sec       == FsWrite(SecretFileSlices(network, secretkey, publickey),
                             files.sec, failSec)
    IN  IF extension THEN [run |-> Failed(r, "BadFileName"), fs |-> files]
        ELSE IF ~pub.ok
        THEN [run |-> Failed(r, "IoError"), fs |-> [files EXCEPT !.pub = pub.file]]
        ELSE IF ~sec.ok
        THEN [run |-> Failed(r, "IoError"),
              fs |-> [files EXCEPT !.pub = pub.file, !.sec = sec.file]]
        ELSE [run |-> r, fs |-> [files EXCEPT !.pub = pub.file, !.sec = sec.file]]

\* the nonce and the signing key of the allowlist a file holds, if it holds one
NonceAndKey(file) ==
    IF file.exists /\ Len(file.data) = 4
    THEN <<file.data[2], file.data[4][1]>>
    ELSE <<>>

\* AllowlistCommand::Sign, refusing a nonce the output file already carries
SignRunRefusingReuse(network, file, secret, nonce, fail, files) ==
    LET r == Started("Sign", network)
    IN  IF ~file.exists \/ ~secret.exists
        THEN [run |-> Failed(r, "IoError"), fs |-> files]
        ELSE LET k == ParseSecret(secret.data, network)
             IN  IF ~k.ok THEN [run |-> Failed(r, k.err), fs |-> files]
                 ELSE LET s == ParseAllowlist(file.data, network, k.public, k.secret, nonce)
                      IN  IF ~s.ok THEN [run |-> Failed(r, s.err), fs |-> files]
                          ELSE IF NonceAndKey(files.signed) = <<U32LE(nonce), k.secret>>
                          THEN [run |-> Failed(r, "NonceReused"), fs |-> files]
                          ELSE LET w == FsWrite(<<s.signed>>, files.signed, fail)
                               IN  [run |-> IF w.ok THEN r ELSE Failed(r, "IoError"),
                                    fs |-> [files EXCEPT !.signed = w.file]]

\* AllowlistCommand::Sign
SignRun(network, file, secret, nonce, fail, files) ==
    LET r == Started("Sign", network)
    IN  IF ~file.exists \/ ~secret.exists
        THEN [run |-> Failed(r, "IoError"), fs |-> files]
        ELSE LET k == ParseSecret(secret.data, network)
             IN  IF ~k.ok THEN [run |-> Failed(r, k.err), fs |-> files]
                 ELSE LET s == ParseAllowlist(file.data, network, k.public, k.secret, nonce)
                      IN  IF ~s.ok THEN [run |-> Failed(r, s.err), fs |-> files]
                          ELSE LET w == FsWrite(<<s.signed>>, files.signed, fail)
                               IN  [run |-> IF w.ok THEN r ELSE Failed(r, "IoError"),
                                    fs |-> [files EXCEPT !.signed = w.file]]

\* the writeln! loop of Inspect: failAt = 0 writes every line, failAt = k
\* fails at the k-th; the lines before it reach the output when the
\* BufWriter is dropped
Written(addresses, failAt) ==
    IF failAt \in 1..Len(addresses) THEN SubSeq(addresses, 1, failAt - 1) ELSE addresses

\* AllowlistCommand::Inspect, writing the decoded addresses before the
\* signature has been checked
InspectRunUnverified(network, file, public, toPath, failOpen, failAt, files) ==
    LET r == Started("Inspect", network)
    IN  IF ~file.exists \/ ~public.exists
        THEN [run |-> Failed(r, "IoError"), fs |-> files]
        ELSE LET p == ParsePublic(public.data)
             IN  IF ~p.ok THEN [run |-> Failed(r, p.err), fs |-> files]
                 ELSE IF toPath /\ failOpen THEN [run |-> Failed(r, "IoError"), fs |-> files]
                 ELSE LET opened == IF toPath THEN [files EXCEPT !.out = File(<<>>)] ELSE files
                          i      == ParserInspect(file.data, p.network, p.key)
                          lines  == IF Len(file.data) >= 3
                                    THEN Written(Render(p.network, file.data[3]), failAt)
                                    ELSE <<>>
                          after  == IF toPath THEN [files EXCEPT !.out = File(lines)] ELSE files
                      IN  [run |-> [r EXCEPT !.err = IF i.ok THEN "none" ELSE i.err,
                                             !.verified = i.ok, !.lines = Len(lines)],
                           fs |-> after]

\* AllowlistCommand::Inspect
InspectRun(network, file, public, toPath, failOpen, failAt, files) ==
    LET r == Started("Inspect", network)
    IN  IF ~file.exists \/ ~public.exists
        THEN [run |-> Failed(r, "IoError"), fs |-> files]
        ELSE LET p == ParsePublic(public.data)
             IN  IF ~p.ok THEN [run |-> Failed(r, p.err), fs |-> files]
                 ELSE IF toPath /\ failOpen THEN [run |-> Failed(r, "IoError"), fs |-> files]
                 ELSE LET opened == IF toPath THEN [files EXCEPT !.out = File(<<>>)] ELSE files
                          i      == ParserInspect(file.data, p.network, p.key)
                      IN  IF ~i.ok THEN [run |-> Failed(r, i.err), fs |-> opened]
                          ELSE LET lines == Written(i.addresses, failAt)
                                   done  == [r EXCEPT !.verified = TRUE, !.lines = Len(lines)]
                               IN  [run |-> IF lines = i.addresses THEN done
                                            ELSE Failed(done, "IoError"),
                                    fs |-> IF toPath THEN [files EXCEPT !.out = File(lines)]
                                           ELSE files]

VARIABLES
    cur,     \* the keystore made by the latest SoftKeyStore::new, with its arguments
    prev,    \* the keystore made by the one before
    handle,  \* the latest handle signer() returned
    res,     \* the latest keystore call and what it returned
    fs,      \* the files the allowlist commands write
    run      \* the latest allowlist command: its arguments and what it did

softVars == <<cur, prev, handle, res>>

cliVars == <<fs, run>>

vars == <<cur, prev, handle, res, fs, run>>

SoftInit ==
    /\ cur = None
    /\ prev = None
    /\ handle = None
    /\ res = [op |-> "none"]

\* SoftKeyStore::new(seed, account_type) in a run configured for `network`
New(network, seed, account_type) ==
    /\ cur' = [network |-> network, seed |-> seed, account_type |-> account_type,
               ks |-> SoftKeyStoreNew(seed, account_type)]
    /\ prev' = cur
    /\ res' = [op |-> "new"]
    /\ UNCHANGED <<handle, cliVars>>

\* keystore.signer(index)
SignerCall(index) ==
    /\ cur # None
    /\ LET r == SignerResult(cur.ks, index)
       IN  /\ res' = [op |-> "signer", index |-> index, kind |-> r.kind]
           /\ handle' = IF r.kind = "ok" THEN r.handle ELSE handle
    /\ UNCHANGED <<cur, prev, cliVars>>

\* the signers a caller holds: the keystore itself and the latest handle
Signers == (IF cur = None THEN {} ELSE {cur.ks}) \cup (IF handle = None THEN {} ELSE {handle})

\* signer.account_id()
AccountIdCall(self) ==
    /\ res' = [op |-> "account_id", self |-> self, value |-> AccountIdOf(self)]
    /\ UNCHANGED <<cur, prev, handle, cliVars>>

\* signer.sign(extrinsic)
SignCall(self, call) ==
    /\ res' = [op |-> "sign", self |-> self, value |-> SignExtrinsic(self, call)]
    /\ UNCHANGED <<cur, prev, handle, cliVars>>

\* ------------------------------------------------------ what a run was given
\* the secret key file GenKey writes for `network` and the k-th keypair
SecretFileOf(network, k) ==
    File(Concat(SecretFileSlices(network, SecretBytes(k), PublicBytes(SecretBytes(k)))))

\* the public key file GenKey writes for `network` and the k-th keypair
PublicFileOf(network, k) == File(PublicFileText(network, PublicBytes(SecretBytes(k))))

\* the network a public key file names, "none" when it names none
PublicFileNetwork(file) ==
    IF file.exists /\ Len(file.data) = 5 /\ file.data[2] \in Networks
    THEN file.data[2] ELSE "none"

\* the text holds only comments and addresses of `network`
TextFor(file, network) ==
    /\ file.exists
    /\ \A i \in 1..Len(file.data) :
          \/ file.data[i].kind = "comment"
          \/ file.data[i].kind = "address" /\ file.data[i].network = network

\* `file` is an allowlist as Sign emits it and `public` is the public key
\* file of the key that signed it, for the allowlist's network
SignedBy(file, public) ==
    /\ file.exists
    /\ public.exists
    /\ Len(file.data) = 4
    /\ file.data[4] = Signature(file.data[4][1], SubSeq(file.data, 1, 3))
    /\ \E n \in Networks :
          /\ file.data[1] = NetworkByte(n)
          /\ public.data = PublicFileText(n, PublicBytes(file.data[4][1]))

\* ---------------------------------------------------------------- the state
NoFiles == [pub |-> Absent, sec |-> Absent, signed |-> Absent, out |-> Absent]

CliInit ==
    /\ fs = NoFiles
    /\ run = Started("none", "none")

\* key files that are not what GenKey writes: a banner naming an unknown
\* network, and a secret key file whose magic is altered
BadPublicFile == File(PublicFileText("Westend", PublicBytes(SecretBytes(1))))

BadSecretFile == File([SecretFileOf("Kusama", 1).data EXCEPT ![1] = 108])

\* the public key files an operator may pass to SetKey: the one GenKey
\* left on disk, none, a malformed one
PublicOnDisk == {fs.pub, Absent, BadPublicFile}

\* the secret key files GenKey writes, each with the network and the
\* keypair it was generated for
SecretInputs ==
    {[file |-> SecretFileOf(n, k), network |-> n, key |-> k] : n \in Networks, k \in Keys}

\* secret key files Sign cannot use: none at the path, an altered magic
UnusableSecrets ==
    {[file |-> f, network |-> "none", key |-> 0] : f \in {Absent, BadSecretFile}}

\* the public key files GenKey writes
PublicInputs == {PublicFileOf(n, k) : n \in Networks, k \in Keys}

\* public key files Inspect cannot use: none at the path, an unknown network
UnusablePublics == {Absent, BadPublicFile}

\* the binary allowlists an operator may pass: the one on disk, the one on
\* disk with its nonce altered, the one on disk cut short
SignedInputs ==
    {fs.signed}
    \cup (IF Len(fs.signed.data) = 4
          THEN {File([fs.signed.data EXCEPT ![2] = U32LE(MaxNonce + 1)]),
                File(SubSeq(fs.signed.data, 1, 3))}
          ELSE {})

TextInputs == {File(t) : t \in Texts}

\* texts Sign cannot use: none at the path, a line that is no address
UnusableTexts == {Absent, File(<<CommentLine, JunkLine>>)}

\* where Inspect writes: stdout, a path, a path that cannot be opened
Outputs == {"stdout", "path", "unwritable"}

GetKey(network, dev) ==
    /\ run' = GetKeyRun(network, dev)
    /\ UNCHANGED <<fs, softVars>>

SetKey(network, key, dev) ==
    /\ run' = [SetKeyRun(network, key, dev) EXCEPT
                  !.keyNetwork = PublicFileNetwork(key)]
    /\ UNCHANGED <<fs, softVars>>

Upload(network, path, dev) ==
    /\ run' = UploadRun(network, path, dev)
    /\ UNCHANGED <<fs, softVars>>

GenKey(network, extension, k, failPub, failSec) ==
    LET g == GenKeyRun(network, extension, k, failPub, failSec, fs)
    IN  /\ run' = g.run
        /\ fs' = g.fs
        /\ UNCHANGED softVars

Sign(network, file, secret, nonce, fail) ==
    LET s == SignRun(network, file, secret.file, nonce, fail, fs)
    IN  /\ run' = [s.run EXCEPT
                      !.keyNetwork = secret.network,
                      !.nonce = nonce,
                      !.valid = /\ TextFor(file, network)
                                /\ secret.network = network
                                /\ fail = -1,
                      !.reuse = /\ secret.key # 0
                                /\ NonceAndKey(fs.signed)
                                      = <<U32LE(nonce), SecretBytes(secret.key)>>]
        /\ fs' = s.fs
        /\ UNCHANGED softVars

Inspect(network, file, public, output, failAt) ==
    LET i == InspectRun(network, file, public, output # "stdout",
                        output = "unwritable", failAt, fs)
    IN  /\ run' = [i.run EXCEPT
                      !.keyNetwork = PublicFileNetwork(public),
                      !.valid = /\ SignedBy(file, public)
                                /\ output # "unwritable"
                                /\ failAt = 0]
        /\ fs' = i.fs
        /\ UNCHANGED softVars

KeyNext ==
    \/ \E n \in Networks, d \in Devices : GetKey(n, d)
    \/ \E n \in Networks, key \in PublicOnDisk, d \in Devices : SetKey(n, key, d)
    \/ \E n \in Networks, path \in {Absent, File(<<>>)}, d \in Devices : Upload(n, path, d)
    \/ \E n \in Networks, e \in BOOLEAN, k \in Keys, fp \in -1..1, fx \in -1..5 :
          GenKey(n, e, k, fp, fx)

ListNext ==
    \/ \E n \in Networks, t \in TextInputs, secret \in SecretInputs,
          nonce \in Nonces, f \in -1..1 :
          Sign(n, t, secret, nonce, f)
    \/ \E n \in Networks, secret \in UnusableSecrets :
          Sign(n, File(<<CommentLine, AddressLine(n)>>), secret, 0, -1)
    \/ \E n \in Networks, t \in UnusableTexts, secret \in SecretInputs :
          Sign(n, t, secret, 0, -1)
    \/ \E n \in Networks, file \in SignedInputs, public \in PublicInputs,
          output \in Outputs, failAt \in {0, MaxLines} :
          Inspect(n, file, public, output, failAt)
    \/ \E n \in Networks, file \in SignedInputs, public \in UnusablePublics,
          output \in Outputs :
          Inspect(n, file, public, output, 0)
    \/ \E n \in Networks, public \in PublicInputs, output \in Outputs :
          Inspect(n, Absent, public, output, 0)

SoftNext ==
    \/ \E n \in Networks, s \in Seeds, t \in AccountTypes : New(n, s, t)
    \/ \E i \in Indices : SignerCall(i)
    \/ \E self \in Signers : AccountIdCall(self)
    \/ \E self \in Signers, c \in Calls : SignCall(self, c)

Init == SoftInit /\ CliInit

SoftSpec == Init /\ [][SoftNext]_vars

KeySpec == Init /\ [][KeyNext]_vars

ListSpec == Init /\ [][ListNext]_vars

\* ------------------------------------------------------------- the claims

\* C1: signer(index) fails with the invalid-index error for every index at
\* or above 2^31 and returns a handle, derived at that index, for every
\* smaller index; no index leads to any other outcome.
IndexGuard ==
    res.op = "signer" =>
        /\ res.kind \in {"ok", "InvalidIndex"}
        /\ res.kind = "InvalidIndex" <=> res.index[1] >= 32768
        /\ res.kind = "ok" =>
              /\ handle # None
              /\ handle.prv.path =
                    Append(cur.ks.prv.path, <<res.index[1] + 32768, res.index[2]>>)

\* C1's case: the index 2^31 itself is refused
IndexGuardWitness ==
    /\ res.op = "signer"
    /\ res.index = <<32768, 0>>
    /\ res.kind = "InvalidIndex"

\* C2: a SetKey whose public key file names another network than the run's
\* fails with the mismatch error without the hardware store having been
\* built and without set_pubkey having been called.
MismatchBeforeDevice ==
    (run.cmd = "SetKey" /\ run.keyNetwork \notin {"none", run.network}) =>
        /\ run.err = "NetworkMismatch"
        /\ ~run.hw
        /\ run.device = "none"

\* C2's case: a Kusama key file given to a Polkadot run
MismatchBeforeDeviceWitness ==
    /\ run.cmd = "SetKey"
    /\ run.network = "Polkadot"
    /\ run.keyNetwork = "Kusama"
    /\ run.err = "NetworkMismatch"

\* C3: Inspect writes address lines only once decoding and verification have
\* succeeded; a run that ends with a decoding, verification or key file
\* error has written no address line.
VerificationGatesOutput ==
    run.cmd = "Inspect" =>
        /\ run.lines > 0 => run.verified
        /\ run.err \in {"TruncatedAllowlist", "SignatureInvalid",
                        "NetworkMismatch", "MalformedKeyFile"} => run.lines = 0

\* C3's case: an allowlist whose signature does not verify
VerificationGatesOutputWitness ==
    /\ run.cmd = "Inspect"
    /\ run.err = "SignatureInvalid"
    /\ run.lines = 0

\* C4: SetKey, Sign and Inspect each fail when the key file they are given
\* was made for another network than the one declared for the run.
NetworkMixingRejected ==
    (run.cmd \in {"SetKey", "Sign", "Inspect"}
        /\ run.keyNetwork \notin {"none", run.network}) => run.err # "none"

\* C5: a GenKey or an Inspect that returns an error leaves every file as it
\* was before the command.
NoPartialOutput ==
    [][(run'.cmd \in {"GenKey", "Inspect"} /\ run'.err # "none") => fs' = fs]_vars

\* C6: a Sign whose inputs are sound succeeds whatever nonces were signed
\* before, the same nonce under the same key included, and its output
\* carries the nonce it was given; an Inspect of an allowlist as Sign emits
\* it, with the public key file of the signing key, succeeds.
NonceCarriedNotEnforced ==
    /\ (run.cmd = "Sign" /\ run.valid) =>
          /\ run.err = "none"
          /\ fs.signed.exists
          /\ Len(fs.signed.data) = 4
          /\ fs.signed.data[2] = U32LE(run.nonce)
          /\ fs.signed.data[4] = Signature(fs.signed.data[4][1], SubSeq(fs.signed.data, 1, 3))
    /\ (run.cmd = "Inspect" /\ run.valid) =>
          /\ run.err = "none"
          /\ run.verified

\* C6's case: a Sign that succeeded over an output file which already
\* carried the same nonce under the same key
NonceCarriedNotEnforcedWitness ==
    /\ run.cmd = "Sign"
    /\ run.err = "none"
    /\ run.reuse

\* C7: every component of the path of a handle signer() returns is derived
\* hardened (bit 31 set): purpose 44, coin type, account type, chain 0 and
\* the index, in this order.
EveryComponentHardened ==
    handle # None =>
        /\ Len(handle.prv.path) = 5
        /\ \A i \in 1..5 : handle.prv.path[i][1] >= 32768
        /\ handle.prv.path[1] = <<32768, 44>>
        /\ handle.prv.path[4] = <<32768, 0>>

\* C8: keystores made for two different networks differ in the coin-type
\* component of their paths, and so, for the same seed and account type, in
\* their paths.
CoinTypePerNetwork ==
    (cur # None /\ prev # None /\ cur.network # prev.network) =>
        /\ cur.ks.prv.path[2] # prev.ks.prv.path[2]
        /\ cur.ks.prv.path # prev.ks.prv.path

\* the layout C9 gives the secret key file, with a magic of m bytes: the
\* magic, the version 1 as two little-endian bytes, the tag of the run's
\* network, the 32 secret bytes, the 32 public bytes of the same keypair
SecretFileLayout(m) ==
    (run.cmd = "GenKey" /\ run.err = "none") =>
        LET d == fs.sec.data
        IN  /\ fs.sec.exists
            /\ Len(d) = m + 2 + 1 + 32 + 32
            /\ SubSeq(d, 1, m) = KEY_MAGIC
            /\ SubSeq(d, m + 1, m + 2) = <<1, 0>>
            /\ d[m + 3] = (IF run.network = "Polkadot" THEN 0 ELSE 2)
            /\ \E k \in Keys :
                  /\ SubSeq(d, m + 4, m + 35) = [i \in 1..32 |-> k]
                  /\ SubSeq(d, m + 36, m + 67) = [i \in 1..32 |-> 255 - k]

\* C9 as stated: the secret key file GenKey writes opens with a magic of 22
\* bytes, followed by the version, the network tag, the secret key and the
\* public key.
SecretFileLayoutAsStated == SecretFileLayout(22)

\* C9 as amended: the secret key file GenKey writes opens with a magic of 21
\* bytes, followed by the version, the network tag, the secret key and the
\* public key of the same keypair.
SecretFileLayoutAmended == SecretFileLayout(21)

\* C9's case: a GenKey that wrote its secret key file
SecretFileLayoutWitness ==
    /\ run.cmd = "GenKey"
    /\ run.err = "none"
    /\ fs.sec.exists
    /\ fs.sec.data # <<>>

\* C10: every signer holds the account id derived from the private key it
\* holds; account_id() returns it, sign() leaves the signer as it was and
\* puts that account id in the extrinsic as the signer's address.
AccountIdIsDerived ==
    /\ cur # None => cur.ks.pub = PublicOf(cur.ks.prv)
    /\ handle # None => handle.pub = PublicOf(handle.prv)
    /\ res.op \in {"account_id", "sign"} => res.self \in Signers
    /\ res.op = "account_id" => res.value = PublicOf(res.self.prv)
    /\ res.op = "sign" =>
          /\ res.value.address = PublicOf(res.self.prv)
          /\ res.value.signature.key = res.self.prv

\* C10's case: an extrinsic signed by a handle that signer() returned
AccountIdIsDerivedWitness ==
    /\ res.op = "sign"
    /\ handle # None
    /\ res.self = handle
    /\ res.value.address = handle.pub

====
